---- MODULE Spec2Model ----
(***************************************************************************)
(* KisanMitra: the advisory endpoint GET /get-farmer-advice, its bearer    *)
(* guard, the weather normalisation and the alert rules, in the three      *)
(* server variants the repository carries:                                 *)
(*   "plain"  src/unnamed/part_000 (and the second server of part_001,     *)
(*            lines 342-588, which is the same code),                      *)
(*   "rich"   src/unnamed/part_001 lines 1-341,                            *)
(*   "basic"  src/unnamed/part_002.                                        *)
(*                                                                         *)
(* Encoding of JavaScript values:                                          *)
(*   a string is a TLA+ string; the strings of the source are kept, with   *)
(*   the two non-ASCII characters transliterated (the degree sign as       *)
(*   "deg", the em dash as "--");                                          *)
(*   an absent string (undefined) is the reserved value Undefined;         *)
(*   a number that may be null/undefined is a sequence: <<>> is null or    *)
(*   undefined, <<n>> is the number n (integers only).                     *)
(***************************************************************************)
EXTENDS Integers, Sequences, FiniteSets, TLC

VARIABLES
  variant,            \* which server file is running
  MCP_BEARER_TOKEN,   \* process.env.MCP_BEARER_TOKEN (read-only configuration)
  NODE_ENV,           \* process.env.NODE_ENV (read-only configuration)
  reqs,               \* the requests of this run
  rq,                 \* rq[r]: the state of request r
  fn,                 \* pure-function harness: the function under application
  arg,                \* pure-function harness: its argument
  ret                 \* pure-function harness: its result, Pending before the call

vars == <<variant, MCP_BEARER_TOKEN, NODE_ENV, reqs, rq, fn, arg, ret>>

(***************************************************************************)
(* JavaScript values and string methods                                    *)
(***************************************************************************)
Undefined == "<undefined>"

Null == <<>>

Num(n) == <<n>>

\* !s for a string or undefined
Falsy(s) == s = Undefined \/ s = ""

\* !v for a number, null or undefined (0 is falsy)
FalsyNum(v) == v = Null \/ v = Num(0)

\* ToNumber for the relational operators: null converts to +0
ToNumber(v) == IF v = Null THEN 0 ELSE v[1]

\* a > b and a < b with a possibly null, b a number literal
JsGt(a, b) == ToNumber(a) > b

JsLt(a, b) == ToNumber(a) < b

\* String.prototype.startsWith
StartsWith(s, p) == Len(s) >= Len(p) /\ SubSeq(s, 1, Len(p)) = p

\* String.prototype.substring(n)
Substring(s, n) == IF n >= Len(s) THEN "" ELSE SubSeq(s, n + 1, Len(s))

\* String.prototype.includes
Includes(s, sub) ==
  \E i \in 1..(Len(s) - Len(sub) + 1) : SubSeq(s, i, i + Len(sub) - 1) = sub

\* `${v}` for a number or null
NumText(v) == IF v = Null THEN "null" ELSE ToString(v[1])

(***************************************************************************)
(* src/utils.js                                                            *)
(***************************************************************************)
HeatThreshold == 40

RainTempThreshold == 25

WindThreshold == 40

NoUrgent == "No urgent issues."

HeatMsg == "Heatwave alert! Irrigate in morning/evening and provide shade if possible."

RainMsg == "Heavy rain expected -- ensure proper drainage."

WindMsg == "Strong winds ahead -- secure plants and structures."

\* The provider payload, by the three paths getWeather reads:
\* description is weather?.[0]?.description, temp is main?.temp, speed is
\* wind?.speed; Undefined / <<>> when the path is absent.
\* getWeather's return value, after a successful axios.get.
getWeather(data) ==
  [ description |-> IF Falsy(data.description) THEN "Unknown" ELSE data.description,
    temp        |-> IF FalsyNum(data.temp) THEN Null ELSE data.temp,
    wind        |-> IF FalsyNum(data.speed) THEN Null ELSE data.speed ]

\* Mutant of getAlert: an if / else-if chain, so the first matching rule wins.
getAlert_FirstMatch(weather) ==
  IF JsGt(weather.temp, HeatThreshold) THEN HeatMsg
  ELSE IF Includes(weather.description, "rain")
          /\ JsLt(weather.temp, RainTempThreshold) THEN RainMsg
  ELSE IF JsGt(weather.wind, WindThreshold) THEN WindMsg
  ELSE NoUrgent

\* getAlert: `emergency` starts as the default and each of the three ifs, in
\* source order, overwrites it when its condition holds.
getAlert(weather) ==
  LET e0 == NoUrgent
      e1 == IF JsGt(weather.temp, HeatThreshold) THEN HeatMsg ELSE e0
      e2 == IF Includes(weather.description, "rain")
               /\ JsLt(weather.temp, RainTempThreshold)
            THEN RainMsg ELSE e1
      e3 == IF JsGt(weather.wind, WindThreshold) THEN WindMsg ELSE e2
  IN  e3

(***************************************************************************)
(* authenticateBearer (part_000:21-49, part_001:29-61, part_001:362-390)   *)
(***************************************************************************)
BearerPrefix == "Bearer "

BearerPrefixLen == 7

\* The outcome of the middleware: next = TRUE when next() is called, else the
\* response it sends.
AuthReject(status, error, message) ==
  [next |-> FALSE, status |-> status, error |-> error, message |-> message]

AuthPass == [next |-> TRUE, status |-> 0, error |-> Undefined, message |-> Undefined]

\* Mutant of authenticateBearer: the token is accepted when it starts with the
\* secret (startsWith in place of !==).
authenticateBearer_PrefixMatch(v, authHeader, expectedToken) ==
  IF Falsy(authHeader) \/ ~StartsWith(authHeader, BearerPrefix)
  THEN AuthReject(401, "Unauthorized", "Bearer token required")
  ELSE IF Falsy(expectedToken)
  THEN AuthReject(500, "Server configuration error", "MCP_BEARER_TOKEN not configured")
  ELSE IF ~StartsWith(Substring(authHeader, BearerPrefixLen), expectedToken)
  THEN AuthReject(401, "Unauthorized", "Invalid bearer token")
  ELSE AuthPass

\* Mutant of authenticateBearer: the configuration check comes first.
authenticateBearer_SecretFirst(v, authHeader, expectedToken) ==
  IF Falsy(expectedToken)
  THEN AuthReject(500, "Server configuration error", "MCP_BEARER_TOKEN not configured")
  ELSE IF Falsy(authHeader) \/ ~StartsWith(authHeader, BearerPrefix)
  THEN AuthReject(401, "Unauthorized", "Bearer token required")
  ELSE IF Substring(authHeader, BearerPrefixLen) # expectedToken
  THEN AuthReject(401, "Unauthorized", "Invalid bearer token")
  ELSE AuthPass

authenticateBearer(v, authHeader, expectedToken) ==
  IF Falsy(authHeader) \/ ~StartsWith(authHeader, BearerPrefix)
  THEN IF v = "rich"
       THEN AuthReject(401, "Authentication required",
                       "Bearer token must be provided in Authorization header")
       ELSE AuthReject(401, "Unauthorized", "Bearer token required")
  ELSE LET token == Substring(authHeader, BearerPrefixLen) IN
       IF Falsy(expectedToken)
       THEN IF v = "rich"
            THEN AuthReject(500, "Server misconfiguration",
                            "Authentication not properly configured")
            ELSE AuthReject(500, "Server configuration error",
                            "MCP_BEARER_TOKEN not configured")
       ELSE IF token # expectedToken
       THEN IF v = "rich"
            THEN AuthReject(401, "Invalid authentication", "Bearer token is incorrect")
            ELSE AuthReject(401, "Unauthorized", "Invalid bearer token")
       ELSE AuthPass

(***************************************************************************)
(* GET /get-farmer-advice: the pieces of the handler                       *)
(***************************************************************************)
Variants == {"plain", "rich", "basic"}

\* whether the route is registered with authenticateBearer in front
HasGuard(v) == v \in {"plain", "rich"}

\* const { crop, region, lang = "en" } = req.query: the default applies to
\* undefined only
LangOf(lang) == IF lang = Undefined THEN "en" ELSE lang

\* Mutant of MissingParams: && in place of ||.
MissingParams_BothMissing(crop, region) == Falsy(crop) /\ Falsy(region)

\* if (!crop || !region)
MissingParams(crop, region) == Falsy(crop) \/ Falsy(region)

\* the 400 response of the validation
ValidationResponse(v) ==
  CASE v = "plain" ->
         [status |-> 400,
          body |-> [error |-> "Missing parameters",
                    message |-> "Both crop and region parameters are required"]]
    [] v = "rich" ->
         [status |-> 400,
          body |-> [success |-> FALSE,
                    error |-> "Missing required parameters",
                    message |-> "Both 'crop' and 'region' parameters are required",
                    usage |-> "?crop=wheat&region=Punjab&lang=en"]]
    [] v = "basic" ->
         [status |-> 400, body |-> [error |-> "Missing crop or region parameter"]]

\* the response authenticateBearer sends when it does not call next()
GuardResponse(a) ==
  [status |-> a.status, body |-> [error |-> a.error, message |-> a.message]]

\* Mutant of LanguageInstruction: the language code is compared ignoring case.
LanguageInstruction_IgnoreCase(v, lang) ==
  IF lang \in {"hi", "HI", "Hi", "hI"}
  THEN CASE v = "plain" -> "Hindi (Devanagari script)"
         [] v = "rich"  -> "Hindi (use Devanagari script)"
         [] v = "basic" -> "Hindi"
  ELSE "English"

\* lang === "hi" ? ... : "English"
LanguageInstruction(v, lang) ==
  IF lang = "hi"
  THEN CASE v = "plain" -> "Hindi (Devanagari script)"
         [] v = "rich"  -> "Hindi (use Devanagari script)"
         [] v = "basic" -> "Hindi"
  ELSE "English"

\* the prompt template of each variant
BuildPrompt(v, crop, region, lang, weather, emergency) ==
  CASE v = "plain" ->
         "\n      You are a farming assistant for Indian farmers."
         \o "\n      Weather: " \o weather.description
         \o ", Temperature: " \o NumText(weather.temp) \o "degC"
         \o ", Wind Speed: " \o NumText(weather.wind) \o " km/h"
         \o "\n      Crop: " \o crop
         \o "\n      Region: " \o region
         \o "\n      Emergency alert: " \o emergency
         \o "\n      \n      Provide a concise, practical farming tip for this situation. Consider:"
         \o "\n      - Current weather conditions"
         \o "\n      - Crop-specific needs"
         \o "\n      - Regional farming practices"
         \o "\n      - Seasonal considerations"
         \o "\n      \n      Language: " \o LanguageInstruction(v, lang)
         \o "\n      Keep the response under 150 words and actionable.\n    "
    [] v = "rich" ->
         "You are an expert agricultural advisor for Indian farmers."
         \o "\n\nCURRENT CONDITIONS:"
         \o "\n- Location: " \o region \o ", India"
         \o "\n- Crop: " \o crop
         \o "\n- Weather: " \o weather.description
         \o "\n- Temperature: " \o NumText(weather.temp) \o "degC"
         \o "\n- Wind: " \o NumText(weather.wind) \o " km/h"
         \o "\n- Emergency Status: " \o emergency
         \o "\n\nTASK: Provide specific, actionable farming advice for this situation."
         \o "\n\nGUIDELINES:"
         \o "\n- Consider the current weather impact on " \o crop
         \o "\n- Include immediate actions the farmer should take"
         \o "\n- Mention any preventive measures needed"
         \o "\n- Keep advice practical and location-specific"
         \o "\n- Language: " \o LanguageInstruction(v, lang)
         \o "\n- Length: Maximum 100 words"
         \o "\n\nFocus on what the farmer should do TODAY based on these conditions."
    [] v = "basic" ->
         "\n      You are a farming assistant."
         \o "\n      Weather: " \o weather.description
         \o ", Temperature: " \o NumText(weather.temp) \o "degC"
         \o ", Wind Speed: " \o NumText(weather.wind) \o " km/h"
         \o "\n      Crop: " \o crop
         \o "\n      Emergency alert: " \o emergency
         \o "\n      Give a short, practical farming tip for this situation."
         \o "\n      Language: " \o LanguageInstruction(v, lang)
         \o "\n    "

\* the forecast string of the 200 response
Forecast(v, weather) ==
  IF v = "basic"
  THEN weather.description \o ", " \o NumText(weather.temp) \o "degC"
  ELSE weather.description \o ", " \o NumText(weather.temp) \o "degC, Wind: "
       \o NumText(weather.wind) \o " km/h"

\* Mutant of SuccessResponse: every variant tags the advisory with a random id.
SuccessResponse_RandomTag(v, crop, region, lang, weather, emergency, advice, timestamp, requestId) ==
  [status |-> 200,
   body |-> [success |-> TRUE,
             data |-> [crop |-> crop, region |-> region,
                       daily_tip |-> advice,
                       emergency_alert |-> emergency,
                       timestamp |-> timestamp,
                       language |-> lang,
                       tag |-> requestId]]]

\* the 200 response
SuccessResponse(v, crop, region, lang, weather, emergency, advice, timestamp, requestId) ==
  CASE v = "plain" ->
         [status |-> 200,
          body |-> [success |-> TRUE,
                    data |-> [crop |-> crop, region |-> region,
                              forecast |-> Forecast(v, weather),
                              daily_tip |-> advice,
                              emergency_alert |-> emergency,
                              timestamp |-> timestamp,
                              language |-> lang]]]
    [] v = "rich" ->
         [status |-> 200,
          body |-> [success |-> TRUE,
                    data |-> [crop |-> crop, region |-> region,
                              weather_forecast |-> Forecast(v, weather),
                              farming_advice |-> advice,
                              emergency_alert |-> emergency,
                              language |-> lang,
                              timestamp |-> timestamp,
                              confidence |-> "high"],
                    metadata |-> [weather_source |-> "OpenWeatherMap",
                                  ai_model |-> "GPT-4o-mini",
                                  request_id |-> requestId]]]
    [] v = "basic" ->
         [status |-> 200,
          body |-> [crop |-> crop, region |-> region,
                    forecast |-> Forecast(v, weather),
                    daily_tip |-> advice,
                    emergency_alert |-> emergency]]

\* A thrown error, by the fields the catch blocks read: response is <<>> when
\* err.response is undefined, else <<[status |-> n]>>; code is err.code.
\* err.response?.status === n
ResponseStatusIs(err, n) == err.response # <<>> /\ err.response[1].status = n

\* Mutant of IsQuotaError: the HTTP status is probed, as the other branches do.
IsQuotaError_ByStatus(err) == ResponseStatusIs(err, 429)

\* err.code === 'insufficient_quota' (rich variant)
IsQuotaError(err) == err.code = "insufficient_quota"

\* Mutant of GenericFailure: the rich variant sends details whatever NODE_ENV is.
GenericFailure_AlwaysDetails(v, err, nodeEnv) ==
  IF v = "rich"
  THEN [status |-> 500,
        body |-> [success |-> FALSE,
                  error |-> "Internal server error",
                  message |-> "Unable to generate farming advice at this time",
                  details |-> err.message]]
  ELSE IF v = "plain"
  THEN [status |-> 500,
        body |-> [error |-> "Internal server error",
                  message |-> IF Falsy(err.message)
                              THEN "Something went wrong while processing your request"
                              ELSE err.message]]
  ELSE [status |-> 500, body |-> [error |-> err.message]]

\* the final, unconditional response of each catch block
GenericFailure(v, err, nodeEnv) ==
  CASE v = "plain" ->
         [status |-> 500,
          body |-> [error |-> "Internal server error",
                    message |-> IF Falsy(err.message)
                                THEN "Something went wrong while processing your request"
                                ELSE err.message]]
    [] v = "rich" ->
         \* details: NODE_ENV === 'development' ? error.message : undefined;
         \* JSON drops a key whose value is undefined
         IF nodeEnv = "development" /\ err.message # Undefined
         THEN [status |-> 500,
               body |-> [success |-> FALSE,
                         error |-> "Internal server error",
                         message |-> "Unable to generate farming advice at this time",
                         details |-> err.message]]
         ELSE [status |-> 500,
               body |-> [success |-> FALSE,
                         error |-> "Internal server error",
                         message |-> "Unable to generate farming advice at this time"]]
    [] v = "basic" ->
         [status |-> 500, body |-> [error |-> err.message]]

\* the catch block of each variant
CatchResponse(v, err, region, nodeEnv) ==
  CASE v = "plain" ->
         IF ResponseStatusIs(err, 404)
         THEN [status |-> 404,
               body |-> [error |-> "Location not found",
                         message |-> "Unable to find weather data for region: " \o region]]
         ELSE IF ResponseStatusIs(err, 401)
         THEN [status |-> 500,
               body |-> [error |-> "Weather API authentication failed",
                         message |-> "Please check OPENWEATHER_API_KEY configuration"]]
         ELSE GenericFailure(v, err, nodeEnv)
    [] v = "rich" ->
         IF ResponseStatusIs(err, 404)
         THEN [status |-> 404,
               body |-> [success |-> FALSE,
                         error |-> "Location not found",
                         message |-> "Weather data unavailable for " \o region
                                     \o ". Try a major city name.",
                         suggestions |-> <<"Delhi", "Mumbai", "Chennai", "Bangalore", "Kolkata">>]]
         ELSE IF IsQuotaError(err)
         THEN [status |-> 503,
               body |-> [success |-> FALSE,
                         error |-> "Service temporarily unavailable",
                         message |-> "AI service quota exceeded. Please try again later."]]
         ELSE GenericFailure(v, err, nodeEnv)
    [] v = "basic" -> GenericFailure(v, err, nodeEnv)

(***************************************************************************)
(* Inputs of the model                                                     *)
(***************************************************************************)
MaxTemp == 42

MaxWind == 42

Secrets == {Undefined, "", "s3cret"}

NodeEnvs == {Undefined, "development", "production"}

\* Authorization headers of the requests of the pipeline
ReqHeaders ==
  {Undefined, "Bearer s3cret", "bearer s3cret", "Bearer S3CRET", "Bearer ",
   "Basic s3cret", "Bearer s3cretx"}

Crops == {Undefined, "", "wheat"}

Regions == {Undefined, "", "Delhi", "Pune"}

Langs == {Undefined, "en", "hi", "HI"}

\* provider payloads of the pipeline
Payloads ==
  [description : {Undefined, "light rain", "clear sky"},
   temp : {Null, Num(0), Num(20), Num(45)},
   speed : {Null, Num(0), Num(50)}]

\* failures of axios.get: an HTTP error carries err.response, a transport
\* error does not
WeatherErrors ==
  { [response |-> <<[status |-> 404]>>, code |-> "ERR_BAD_REQUEST",
     message |-> "Request failed with status code 404"],
    [response |-> <<[status |-> 401]>>, code |-> "ERR_BAD_REQUEST",
     message |-> "Request failed with status code 401"],
    [response |-> <<[status |-> 500]>>, code |-> "ERR_BAD_RESPONSE",
     message |-> "Request failed with status code 500"],
    [response |-> <<>>, code |-> "ECONNREFUSED", message |-> "connect ECONNREFUSED"],
    [response |-> <<>>, code |-> Undefined, message |-> ""] }

\* failures of openai.chat.completions.create: the SDK's errors carry code and
\* message and no response field
GenerationErrors ==
  { [response |-> <<>>, code |-> "insufficient_quota",
     message |-> "429 You exceeded your current quota"],
    [response |-> <<>>, code |-> "rate_limit_exceeded",
     message |-> "429 Rate limit reached"],
    [response |-> <<>>, code |-> "invalid_api_key",
     message |-> "401 Incorrect API key provided"],
    [response |-> <<>>, code |-> Undefined, message |-> "Connection error."] }

\* completions of the generation provider: choices may come back empty
AiResponses ==
  { [choices |-> <<>>],
    [choices |-> <<[message |-> [content |-> "Irrigate early."]]>>],
    [choices |-> <<[message |-> [content |-> "Check drainage."]]>>] }

Timestamps == {"2024-08-10T10:30:00.000Z", "2024-08-10T10:30:01.000Z"}

RequestIds == {"k3x9q", "p0d2m"}

\* the TypeError of aiResp.choices[0].message when choices is empty
ChoicesTypeError ==
  [response |-> <<>>, code |-> Undefined,
   message |-> "Cannot read properties of undefined (reading 'message')"]

(***************************************************************************)
(* The request pipeline                                                    *)
(***************************************************************************)
IdleRequest ==
  [pc |-> "idle", authorization |-> Undefined, crop |-> Undefined,
   region |-> Undefined, lang |-> Undefined,
   guardRan |-> FALSE, handlerRan |-> FALSE,
   weatherCalls |-> 0, genCalls |-> 0,
   weatherArg |-> Undefined,
   weather |-> <<>>, emergency |-> Undefined, prompt |-> Undefined,
   advice |-> Undefined,
   err |-> <<>>, errStage |-> "none", response |-> <<>>]

HarnessIdle == fn = "none" /\ arg = <<>> /\ ret = <<>>

Init ==
  /\ variant \in Variants
  /\ MCP_BEARER_TOKEN \in Secrets
  /\ NODE_ENV \in NodeEnvs
  /\ reqs = {1}
  /\ rq = [r \in reqs |-> IdleRequest]
  /\ HarnessIdle

Unchanged == UNCHANGED <<variant, MCP_BEARER_TOKEN, NODE_ENV, reqs, fn, arg, ret>>

\* A request comes in; express hands it to the first callback of the route.
Arrive(r) ==
  /\ rq[r].pc = "idle"
  /\ \E h \in ReqHeaders, c \in Crops, g \in Regions, l \in Langs :
       rq' = [rq EXCEPT ![r] = [@ EXCEPT !.authorization = h, !.crop = c,
                                         !.region = g, !.lang = l,
                                         !.pc = IF HasGuard(variant) THEN "guard"
                                                ELSE "handler"]]
  /\ Unchanged

\* authenticateBearer runs: it answers, or calls next().
Guard(r) ==
  /\ rq[r].pc = "guard"
  /\ LET a == authenticateBearer(variant, rq[r].authorization, MCP_BEARER_TOKEN) IN
       rq' = [rq EXCEPT ![r] =
                IF a.next
                THEN [@ EXCEPT !.guardRan = TRUE, !.pc = "handler"]
                ELSE [@ EXCEPT !.guardRan = TRUE, !.pc = "done",
                               !.response = <<GuardResponse(a)>>]]
  /\ Unchanged

\* Mutant of HandlerStart: the weather fetch and the generation call are
\* started together.
HandlerStart_Parallel(r) ==
  /\ rq[r].pc = "handler"
  /\ rq' = [rq EXCEPT ![r] =
              IF MissingParams(rq[r].crop, rq[r].region)
              THEN [@ EXCEPT !.handlerRan = TRUE, !.pc = "done",
                             !.response = <<ValidationResponse(variant)>>]
              ELSE [@ EXCEPT !.handlerRan = TRUE, !.pc = "weather",
                             !.weatherArg = rq[r].region,
                             !.weatherCalls = @ + 1, !.genCalls = @ + 1]]
  /\ Unchanged

\* The handler up to its first await: validation, then the call of getWeather.
HandlerStart(r) ==
  /\ rq[r].pc = "handler"
  /\ rq' = [rq EXCEPT ![r] =
              IF MissingParams(rq[r].crop, rq[r].region)
              THEN [@ EXCEPT !.handlerRan = TRUE, !.pc = "done",
                             !.response = <<ValidationResponse(variant)>>]
              ELSE [@ EXCEPT !.handlerRan = TRUE, !.pc = "weather",
                             !.weatherArg = rq[r].region,
                             !.weatherCalls = @ + 1]]
  /\ Unchanged

\* getWeather resolves: alert, prompt, and the call of the generation provider.
WeatherReturns(r) ==
  /\ rq[r].pc = "weather"
  /\ \E data \in Payloads :
       LET weather   == getWeather(data)
           emergency == getAlert(weather)
           prompt    == BuildPrompt(variant, rq[r].crop, rq[r].region,
                                    LangOf(rq[r].lang), weather, emergency)
       IN rq' = [rq EXCEPT ![r] = [@ EXCEPT !.weather = <<weather>>,
                                            !.emergency = emergency,
                                            !.prompt = prompt,
                                            !.genCalls = @ + 1,
                                            !.pc = "generate"]]
  /\ Unchanged

\* Mutant of WeatherFails: a first failure of the fetch is retried once.
WeatherFails_RetryOnce(r) ==
  /\ rq[r].pc = "weather"
  /\ \E err \in WeatherErrors :
       rq' = [rq EXCEPT ![r] =
                IF rq[r].weatherCalls < 2
                THEN [@ EXCEPT !.weatherCalls = @ + 1]
                ELSE [@ EXCEPT !.err = <<err>>, !.errStage = "weather", !.pc = "done",
                               !.response = <<CatchResponse(variant, err, rq[r].region,
                                                            NODE_ENV)>>]]
  /\ Unchanged

\* getWeather rejects: the catch block answers.
WeatherFails(r) ==
  /\ rq[r].pc = "weather"
  /\ \E err \in WeatherErrors :
       rq' = [rq EXCEPT ![r] =
                [@ EXCEPT !.err = <<err>>, !.errStage = "weather", !.pc = "done",
                          !.response = <<CatchResponse(variant, err, rq[r].region,
                                                       NODE_ENV)>>]]
  /\ Unchanged

\* The generation call resolves: the 200 response, or the TypeError of an empty
\* choices array, which the catch block answers.
GenerationReturns(r) ==
  /\ rq[r].pc = "generate"
  /\ \E ai \in AiResponses, ts \in Timestamps, rid \in RequestIds :
       rq' = [rq EXCEPT ![r] =
                IF ai.choices = <<>>
                THEN [@ EXCEPT !.err = <<ChoicesTypeError>>, !.errStage = "assembly",
                               !.pc = "done",
                               !.response = <<CatchResponse(variant, ChoicesTypeError,
                                                            rq[r].region, NODE_ENV)>>]
                ELSE [@ EXCEPT !.pc = "done",
                               !.advice = ai.choices[1].message.content,
                               !.response =
                                 <<SuccessResponse(variant, rq[r].crop, rq[r].region,
                                                   LangOf(rq[r].lang), rq[r].weather[1],
                                                   rq[r].emergency,
                                                   ai.choices[1].message.content, ts,
                                                   rid)>>]]
  /\ Unchanged

\* Mutant of GenerationFails: the region of the error message is kept in a
\* variable shared by all requests, here the region of the latest other request.
GenerationFails_SharedRegion(r) ==
  /\ rq[r].pc = "generate"
  /\ \E err \in GenerationErrors, o \in reqs :
       rq' = [rq EXCEPT ![r] =
                [@ EXCEPT !.err = <<err>>, !.errStage = "generation", !.pc = "done",
                          !.response = <<[CatchResponse(variant, err, rq[r].region,
                                                        NODE_ENV)
                                          EXCEPT !.body.error = @ \o rq[o].region]>>]]
  /\ Unchanged

\* The generation call rejects: the catch block answers.
GenerationFails(r) ==
  /\ rq[r].pc = "generate"
  /\ \E err \in GenerationErrors :
       rq' = [rq EXCEPT ![r] =
                [@ EXCEPT !.err = <<err>>, !.errStage = "generation", !.pc = "done",
                          !.response = <<CatchResponse(variant, err, rq[r].region,
                                                       NODE_ENV)>>]]
  /\ Unchanged

Next ==
  \/ \E r \in reqs : Arrive(r)
  \/ \E r \in reqs : Guard(r)
  \/ \E r \in reqs : HandlerStart(r)
  \/ \E r \in reqs : WeatherReturns(r)
  \/ \E r \in reqs : WeatherFails(r)
  \/ \E r \in reqs : GenerationReturns(r)
  \/ \E r \in reqs : GenerationFails(r)

Spec == Init /\ [][Next]_vars

(***************************************************************************)
(* Two requests in flight at once.  Node runs each callback to completion, *)
(* so the steps of the two requests interleave at the awaits: the actions  *)
(* are those of Next, and the inputs come from smaller sets.               *)
(***************************************************************************)
TwoReqs == {1, 2}

TwoHeaders == {Undefined, "Bearer s3cret"}

TwoCrops == {"", "wheat"}

TwoRegions == {"Delhi", "Pune"}

TwoLangs == {Undefined, "hi", "HI"}

TwoReadings ==
  { getWeather(d) : d \in [description : {"light rain"}, temp : {Null, Num(45)},
                           speed : {Null}] }

TwoErrors ==
  { e \in WeatherErrors : e.code \in {"ERR_BAD_REQUEST", "ECONNREFUSED"}
                          /\ ~ResponseStatusIs(e, 401) }
  \cup { e \in GenerationErrors : e.code \in {"insufficient_quota", Undefined} }
  \cup { ChoicesTypeError }

TwoAdvice == {"Irrigate early.", "Check drainage."}

\* the request record q holds inputs of the smaller sets only
InTwoBounds(q) ==
  /\ q.pc # "idle" =>
       /\ q.authorization \in TwoHeaders /\ q.crop \in TwoCrops
       /\ q.region \in TwoRegions /\ q.lang \in TwoLangs
  /\ q.weather # <<>> => q.weather[1] \in TwoReadings
  /\ q.err # <<>> => q.err[1] \in TwoErrors
  /\ q.advice # Undefined => q.advice \in TwoAdvice

TwoInit ==
  /\ variant \in Variants
  /\ MCP_BEARER_TOKEN = "s3cret"
  /\ NODE_ENV \in {"development", "production"}
  /\ reqs = TwoReqs
  /\ rq = [r \in reqs |-> IdleRequest]
  /\ HarnessIdle

TwoBounded == \A r \in TwoReqs : InTwoBounds(rq[r])

\* The narrower inputs of the specification with fairness: one reading of the
\* clock and one draw of Math.random, one weather reading, one completion,
\* and one failure of each kind the catch blocks tell apart.
InFewBounds(q) ==
  /\ q.lang \in {Undefined, "hi"}
  /\ q.weather # <<>> => q.weather[1].temp = Null
  /\ q.err # <<>> =>
       \/ ResponseStatusIs(q.err[1], 404)
       \/ q.err[1].code = "insufficient_quota"
       \/ q.err[1] = ChoicesTypeError
  /\ q.advice \in {Undefined, "Irrigate early."}
  /\ q.response # <<>> =>
       LET body == q.response[1].body IN
       /\ "data" \in DOMAIN body => body.data.timestamp = "2024-08-10T10:30:00.000Z"
       /\ "metadata" \in DOMAIN body => body.metadata.request_id = "k3x9q"

FewBounded == \A r \in TwoReqs : InTwoBounds(rq[r]) /\ InFewBounds(rq[r])

TwoNext ==
  \/ \E r \in TwoReqs : Arrive(r) /\ FewBounded'
  \/ \E r \in TwoReqs : Guard(r) /\ FewBounded'
  \/ \E r \in TwoReqs : HandlerStart(r) /\ FewBounded'
  \/ \E r \in TwoReqs : WeatherReturns(r) /\ FewBounded'
  \/ \E r \in TwoReqs : WeatherFails(r) /\ FewBounded'
  \/ \E r \in TwoReqs : GenerationReturns(r) /\ FewBounded'
  \/ \E r \in TwoReqs : GenerationFails(r) /\ FewBounded'

\* a step of request r after its arrival: a callback the event loop runs, or
\* the settling of an upstream call
Progress(r) ==
  /\ \/ Guard(r) \/ HandlerStart(r)
     \/ WeatherReturns(r) \/ WeatherFails(r)
     \/ GenerationReturns(r) \/ GenerationFails(r)
  /\ FewBounded'

\* Every callback that is ready runs, and every upstream call settles.
TwoFair == \A r \in TwoReqs : WF_vars(Progress(r))

SpecTwo == TwoInit /\ [][TwoNext]_vars /\ TwoFair

\* The upstream outcome request r has seen: of the weather fetch, by its
\* argument, and of the generation call, by its prompt.
WeatherOutcome(r) ==
  IF rq[r].errStage = "weather" THEN <<"rejected", rq[r].err[1].message>>
  ELSE IF rq[r].weather # <<>> THEN <<"resolved", rq[r].weather[1]>>
  ELSE <<>>

GenerationOutcome(r) ==
  IF rq[r].errStage \in {"generation", "assembly"}
  THEN <<"rejected", rq[r].err[1].message>>
  ELSE IF rq[r].advice # Undefined THEN <<"resolved", rq[r].advice>>
  ELSE <<>>

\* Stubbed deterministic backends: the weather stub answers the same region
\* the same way every time, and the generation stub the same prompt.
StubDeterministic ==
  \A r1 \in TwoReqs, r2 \in TwoReqs :
    /\ (/\ WeatherOutcome(r1) # <<>> /\ WeatherOutcome(r2) # <<>>
        /\ rq[r1].weatherArg = rq[r2].weatherArg) =>
         WeatherOutcome(r1) = WeatherOutcome(r2)
    /\ (/\ GenerationOutcome(r1) # <<>> /\ GenerationOutcome(r2) # <<>>
        /\ rq[r1].prompt = rq[r2].prompt) =>
         GenerationOutcome(r1) = GenerationOutcome(r2)

StubNext ==
  \/ \E r \in TwoReqs : Arrive(r) /\ TwoBounded'
  \/ \E r \in TwoReqs : Guard(r) /\ TwoBounded'
  \/ \E r \in TwoReqs : HandlerStart(r) /\ TwoBounded'
  \/ \E r \in TwoReqs : WeatherReturns(r) /\ TwoBounded' /\ StubDeterministic'
  \/ \E r \in TwoReqs : WeatherFails(r) /\ TwoBounded' /\ StubDeterministic'
  \/ \E r \in TwoReqs : GenerationReturns(r) /\ TwoBounded' /\ StubDeterministic'
  \/ \E r \in TwoReqs : GenerationFails(r) /\ TwoBounded' /\ StubDeterministic'

SpecStub == TwoInit /\ [][StubNext]_vars

(***************************************************************************)
(* The functions applied on their own: authenticateBearer, getAlert and    *)
(* getWeather's normalisation, each on an argument drawn from bounded sets *)
(***************************************************************************)
\* Authorization header values: absent, empty, and every combination of a
\* leading pad, a scheme, a token and a trailing pad
HeaderPads == {"", " "}

HeaderSchemes == {"Bearer ", "bearer ", "BEARER ", "Bearer", "Bearer  ", "Basic "}

HeaderTokens == {"", "s3cret", "S3CRET", "s3cre", "s3cretx", "tok"}

Headers ==
  {Undefined, ""} \cup
  { pre \o scheme \o tok \o post :
      pre \in HeaderPads, scheme \in HeaderSchemes,
      tok \in HeaderTokens, post \in HeaderPads }

FnSecrets == {Undefined, "", "s3cret", "tok"}

AuthArgs ==
  [v : {"plain", "rich"}, authHeader : Headers, expectedToken : FnSecrets]

Descriptions ==
  {"clear sky", "light rain", "heavy rain", "rain", "Rain", "drain", "Unknown", "rai n"}

Temps == {Null} \cup { Num(t) : t \in (-2)..MaxTemp }

Winds == {Null} \cup { Num(w) : w \in {0} \cup 38..MaxWind }

\* readings handed to getAlert
Readings == [description : Descriptions, temp : Temps, wind : Winds]

\* payloads handed to getWeather's normalisation
FnPayloads ==
  [description : {Undefined, "", "clear sky", "light rain"},
   temp : Temps, speed : Winds]

FnInit ==
  /\ variant = "plain"
  /\ MCP_BEARER_TOKEN = Undefined
  /\ NODE_ENV = Undefined
  /\ reqs = {}
  /\ rq = [r \in reqs |-> IdleRequest]
  /\ ret = <<>>
  /\ \/ fn = "authenticateBearer" /\ arg \in AuthArgs
     \/ fn = "getAlert" /\ arg \in Readings
     \/ fn = "getWeather" /\ arg \in FnPayloads

FnUnchanged == UNCHANGED <<variant, MCP_BEARER_TOKEN, NODE_ENV, reqs, rq, fn, arg>>

CallAuthenticateBearer ==
  /\ fn = "authenticateBearer" /\ ret = <<>>
  /\ ret' = <<authenticateBearer(arg.v, arg.authHeader, arg.expectedToken)>>
  /\ FnUnchanged

CallGetAlert ==
  /\ fn = "getAlert" /\ ret = <<>>
  /\ ret' = <<getAlert(arg)>>
  /\ FnUnchanged

CallGetWeather ==
  /\ fn = "getWeather" /\ ret = <<>>
  /\ ret' = <<getWeather(arg)>>
  /\ FnUnchanged

FnNext == CallAuthenticateBearer \/ CallGetAlert \/ CallGetWeather

SpecFn == FnInit /\ [][FnNext]_vars

(***************************************************************************)
(* Properties                                                              *)
(***************************************************************************)
\* what a request's state says about it
Responded(r) == rq[r].response # <<>>

StatusOf(r) == rq[r].response[1].status

BodyOf(r) == rq[r].response[1].body

Absent(s) == s \in {Undefined, ""}

NoUpstreamCall(r) == rq[r].weatherCalls = 0 /\ rq[r].genCalls = 0

\* the request's Authorization header is exactly "Bearer " followed by the
\* configured, non-empty secret
ValidBearer(r) ==
  /\ ~Absent(MCP_BEARER_TOKEN)
  /\ rq[r].authorization = "Bearer " \o MCP_BEARER_TOKEN

\* C1: a request that reaches the handler with crop or region missing or empty
\* is answered 400, and no request with crop or region missing or empty ever
\* causes a call of the weather provider or of the generation provider.
C1_MissingParamsRejected ==
  \A r \in reqs :
    (Absent(rq[r].crop) \/ Absent(rq[r].region)) =>
      /\ NoUpstreamCall(r)
      /\ rq[r].pc \notin {"weather", "generate"}
      /\ rq[r].handlerRan => (rq[r].pc = "done" /\ Responded(r) /\ StatusOf(r) = 400)

C1_Witness ==
  \E r \in reqs :
    /\ rq[r].handlerRan /\ Absent(rq[r].crop) /\ rq[r].region = "Delhi"
    /\ Responded(r) /\ StatusOf(r) = 400 /\ NoUpstreamCall(r)

\* C2: authenticateBearer calls next() if and only if a non-empty secret is
\* configured and the header is exactly "Bearer " followed by that secret.
C2_NextIffExactBearer ==
  (fn = "authenticateBearer" /\ ret # <<>>) =>
    (ret[1].next <=>
       (/\ ~Absent(arg.expectedToken)
        /\ arg.authHeader = "Bearer " \o arg.expectedToken))

C2_Witness ==
  /\ fn = "authenticateBearer" /\ ret # <<>>
  /\ arg.expectedToken = "s3cret" /\ arg.authHeader = "Bearer s3cret"
  /\ ret[1].next

\* the header is present and begins with the seven characters "Bearer "
HasBearerPrefix(h) == ~Absent(h) /\ Len(h) >= 7 /\ SubSeq(h, 1, 7) = "Bearer "

\* C3: the failure reasons of authenticateBearer come in the order
\* MissingHeader (401, whatever the configuration), ServerMisconfigured (500,
\* whatever the token), InvalidToken (401).
C3_ReasonOrder ==
  (fn = "authenticateBearer" /\ ret # <<>>) =>
    /\ ~HasBearerPrefix(arg.authHeader) => (~ret[1].next /\ ret[1].status = 401)
    /\ (HasBearerPrefix(arg.authHeader) /\ Absent(arg.expectedToken)) =>
         (~ret[1].next /\ ret[1].status = 500)
    /\ (/\ HasBearerPrefix(arg.authHeader) /\ ~Absent(arg.expectedToken)
        /\ arg.authHeader # "Bearer " \o arg.expectedToken) =>
         (~ret[1].next /\ ret[1].status = 401)

C3_Witness ==
  /\ fn = "authenticateBearer" /\ ret # <<>>
  /\ arg.authHeader = "Bearer s3cret" /\ arg.expectedToken = Undefined
  /\ ret[1].status = 500

\* C4: a request without a valid bearer token never reaches the handler's
\* parameter validation, never causes an upstream call and is never answered
\* 200.
C4_GuardBeforeHandler ==
  \A r \in reqs :
    ~ValidBearer(r) =>
      /\ ~rq[r].handlerRan
      /\ NoUpstreamCall(r)
      /\ Responded(r) => StatusOf(r) # 200

\* the rule list of the alert evaluator, by priority, on numeric readings
AlertReference(description, temp, wind) ==
  IF wind > 40 THEN WindMsg
  ELSE IF Includes(description, "rain") /\ temp < 25 THEN RainMsg
  ELSE IF temp > 40 THEN HeatMsg
  ELSE NoUrgent

\* C5: on every reading with a numeric temperature and wind, getAlert returns
\* the wind message when wind > 40, else the rain message when the description
\* contains "rain" and temp < 25, else the heatwave message when temp > 40,
\* else the default; and on every reading the result is one of the four
\* messages.
C5_AlertLastMatchWins ==
  (fn = "getAlert" /\ ret # <<>>) =>
    /\ ret[1] \in {NoUrgent, HeatMsg, RainMsg, WindMsg}
    /\ (arg.temp # Null /\ arg.wind # Null) =>
         ret[1] = AlertReference(arg.description, arg.temp[1], arg.wind[1])

C5_Witness ==
  /\ fn = "getAlert" /\ ret # <<>>
  /\ arg.temp = Num(41) /\ arg.wind = Num(41) /\ arg.description = "heavy rain"
  /\ ret[1] = WindMsg

\* C6: a null temperature fires neither the heatwave nor the rain rule, a null
\* wind does not fire the wind rule, and a reading with both null yields the
\* default for every description.
C6_NullNeverTriggers ==
  (fn = "getAlert" /\ ret # <<>>) =>
    /\ arg.temp = Null => ret[1] \notin {HeatMsg, RainMsg}
    /\ arg.wind = Null => ret[1] # WindMsg
    /\ (arg.temp = Null /\ arg.wind = Null) => ret[1] = NoUrgent

\* the weather fetch of request r failed with the provider's HTTP status n
WeatherFailedWith(r, n) ==
  /\ rq[r].errStage = "weather"
  /\ rq[r].err[1].response = <<[status |-> n]>>

\* C7: a 404 of the weather provider is answered 404 with the region in the
\* message, and the generation provider is not called.
C7_WeatherNotFound ==
  \A r \in reqs :
    WeatherFailedWith(r, 404) =>
      /\ StatusOf(r) = 404
      /\ "message" \in DOMAIN BodyOf(r)
      /\ Includes(BodyOf(r).message, rq[r].region)
      /\ rq[r].genCalls = 0

\* the generation call of request r failed with quota exhaustion
QuotaExhausted(r) ==
  rq[r].errStage = "generation" /\ rq[r].err[1].code = "insufficient_quota"

\* C8 as stated: quota exhaustion of the generation provider is answered 503.
C8_QuotaIs503 ==
  \A r \in reqs : QuotaExhausted(r) => StatusOf(r) = 503

\* C8 as amended: in the rich variant quota exhaustion is answered 503, which
\* no other failure of the generation call gets; in the plain and basic
\* variants it is answered with the generic 500.
C8_QuotaIs503InRich ==
  \A r \in reqs :
    rq[r].errStage = "generation" =>
      /\ variant = "rich" => (StatusOf(r) = 503 <=> QuotaExhausted(r))
      /\ variant = "rich" => StatusOf(r) \in {500, 503}
      /\ variant # "rich" => StatusOf(r) = 500

C8_Witness ==
  \E r \in reqs : variant = "rich" /\ QuotaExhausted(r) /\ StatusOf(r) = 503

\* C9: a 401 of the weather provider is answered 500 with an error category
\* that names the weather API and is not the generic "Internal server error".
C9_WeatherAuthDistinct ==
  \A r \in reqs :
    WeatherFailedWith(r, 401) =>
      /\ StatusOf(r) = 500
      /\ BodyOf(r).error # "Internal server error"
      /\ Includes(BodyOf(r).error, "Weather API")

\* a failure of the weather fetch or of the generation call that is neither a
\* provider 404, nor a credential rejection (401), nor quota exhaustion
OtherFailure(r) ==
  /\ rq[r].errStage \in {"weather", "generation"}
  /\ ~ResponseStatusIs(rq[r].err[1], 404)
  /\ ~ResponseStatusIs(rq[r].err[1], 401)
  /\ rq[r].err[1].code # "insufficient_quota"

\* the body has the text m under one of its string keys
Carries(body, m) ==
  \/ "error" \in DOMAIN body /\ body.error = m
  \/ "message" \in DOMAIN body /\ body.message = m
  \/ "details" \in DOMAIN body /\ body.details = m

\* C10 as stated (for failures whose message is not empty): the answer is 500
\* and its body carries the failure's message.
C10_OtherFailureCarriesMessage ==
  \A r \in reqs :
    (OtherFailure(r) /\ rq[r].err[1].message # "") =>
      (StatusOf(r) = 500 /\ Carries(BodyOf(r), rq[r].err[1].message))

\* C10 as amended: the answer is 500; its body carries the failure's message
\* in the plain and basic variants (the plain variant puts a fixed text in
\* place of an empty message) and, in the rich variant, exactly when NODE_ENV
\* is "development".
C10_OtherFailureIs500 ==
  \A r \in reqs :
    OtherFailure(r) =>
      LET m == rq[r].err[1].message IN
      /\ StatusOf(r) = 500
      /\ variant = "basic" => BodyOf(r).error = m
      /\ variant = "plain" =>
           BodyOf(r).message =
             IF m = "" THEN "Something went wrong while processing your request" ELSE m
      /\ variant = "rich" =>
           /\ "details" \in DOMAIN BodyOf(r) <=> NODE_ENV = "development"
           /\ NODE_ENV = "development" => BodyOf(r).details = m
           /\ (NODE_ENV # "development" /\ m # "") => ~Carries(BodyOf(r), m)

C10_Witness ==
  \E r \in reqs :
    /\ OtherFailure(r) /\ variant = "rich" /\ NODE_ENV = "production"
    /\ rq[r].err[1].message = "Connection error."
    /\ StatusOf(r) = 500 /\ ~Carries(BodyOf(r), "Connection error.")

\* the response of request r is an error response
IsErrorResponse(r) == Responded(r) /\ StatusOf(r) >= 400

\* C11: every error response has an error category and a message, and outside
\* development no error response carries the message of the exception that
\* caused it.
C11_ErrorShapeAndNoLeak ==
  \A r \in reqs :
    IsErrorResponse(r) =>
      /\ "error" \in DOMAIN BodyOf(r)
      /\ "message" \in DOMAIN BodyOf(r)
      /\ (NODE_ENV # "development" /\ rq[r].err # <<>> /\ rq[r].err[1].message # "") =>
           ~Carries(BodyOf(r), rq[r].err[1].message)

\* C14: the generation call of a request is made only after its weather fetch
\* has resolved; while the fetch is pending no generation call has been made;
\* when the fetch fails no generation call is made and the failure is answered
\* in the same step.
C14_GenerationAfterWeather ==
  \A r \in reqs :
    /\ rq[r].genCalls > 0 =>
         (rq[r].weather # <<>> /\ rq[r].weatherCalls > 0 /\ rq[r].pc \in {"generate", "done"})
    /\ rq[r].pc = "weather" => rq[r].genCalls = 0
    /\ rq[r].errStage = "weather" =>
         (rq[r].genCalls = 0 /\ rq[r].pc = "done" /\ Responded(r))

C14_Witness ==
  \E r \in reqs :
    /\ rq[r].errStage = "weather" /\ rq[r].weatherCalls = 1
    /\ rq[r].genCalls = 0 /\ Responded(r)

\* C15: a request calls the weather provider at most once and the generation
\* provider at most once, and a 200 response comes after exactly one
\* successful call of each.
C15_NoRetry ==
  \A r \in reqs :
    /\ rq[r].weatherCalls <= 1
    /\ rq[r].genCalls <= 1
    /\ (Responded(r) /\ StatusOf(r) = 200) =>
         /\ rq[r].weatherCalls = 1 /\ rq[r].genCalls = 1
         /\ rq[r].weather # <<>> /\ rq[r].advice # Undefined /\ rq[r].err = <<>>

C15_Witness ==
  \E r \in reqs :
    /\ Responded(r) /\ StatusOf(r) = 200
    /\ rq[r].weatherCalls = 1 /\ rq[r].genCalls = 1

\* C16: each field of getWeather's result is the provider's value whenever the
\* provider supplies one (0 included) and the fallback only when the field is
\* absent.
C16_NormalisesFieldByField ==
  (fn = "getWeather" /\ ret # <<>>) =>
    /\ ret[1].description =
         (IF arg.description = Undefined THEN "Unknown" ELSE arg.description)
    /\ ret[1].temp = arg.temp
    /\ ret[1].wind = arg.speed

\* the two requests carry the same header and the same query parameters
SameRequest(r1, r2) ==
  /\ rq[r1].authorization = rq[r2].authorization
  /\ rq[r1].crop = rq[r2].crop
  /\ rq[r1].region = rq[r2].region
  /\ rq[r1].lang = rq[r2].lang

\* a response with its timestamp blanked
WithoutTimestamp(resp) ==
  IF "data" \in DOMAIN resp.body
  THEN [resp EXCEPT !.body.data.timestamp = "-"]
  ELSE resp

\* a response with its timestamp and its random request id blanked
WithoutVolatile(resp) ==
  IF "metadata" \in DOMAIN resp.body
  THEN [WithoutTimestamp(resp) EXCEPT !.body.metadata.request_id = "-"]
  ELSE WithoutTimestamp(resp)

\* C12 as stated: against deterministic stubs, two identical requests get the
\* same status and the same payload in every field except the timestamp.
C12_IdenticalButTimestamp ==
  \A r1 \in reqs, r2 \in reqs :
    (SameRequest(r1, r2) /\ Responded(r1) /\ Responded(r2)) =>
      WithoutTimestamp(rq[r1].response[1]) = WithoutTimestamp(rq[r2].response[1])

\* C12 as amended: the same status and the same payload in every field except
\* the timestamp and, in the rich variant, metadata.request_id.
C12_IdenticalButVolatile ==
  \A r1 \in reqs, r2 \in reqs :
    (SameRequest(r1, r2) /\ Responded(r1) /\ Responded(r2)) =>
      /\ StatusOf(r1) = StatusOf(r2)
      /\ WithoutVolatile(rq[r1].response[1]) = WithoutVolatile(rq[r2].response[1])
      /\ variant # "rich" =>
           WithoutTimestamp(rq[r1].response[1]) = WithoutTimestamp(rq[r2].response[1])

C12_Witness ==
  /\ SameRequest(1, 2) /\ Responded(1) /\ Responded(2)
  /\ StatusOf(1) = 200 /\ StatusOf(2) = 200
  /\ variant = "rich"
  /\ BodyOf(1).data.timestamp # BodyOf(2).data.timestamp
  /\ BodyOf(1).metadata.request_id # BodyOf(2).metadata.request_id

\* the language instruction the claim gives for a lang parameter
ExpectedInstruction(lang) ==
  IF lang = "hi"
  THEN CASE variant = "plain" -> "Hindi (Devanagari script)"
         [] variant = "rich"  -> "Hindi (use Devanagari script)"
         [] variant = "basic" -> "Hindi"
  ELSE "English"

\* p1 and p2 are one text around the instructions i1 (in p1) and i2 (in p2)
DiffersOnlyIn(p1, p2, i1, i2) ==
  \E k \in 0..Len(p1) :
    /\ k + Len(i1) <= Len(p1) /\ k + Len(i2) <= Len(p2)
    /\ SubSeq(p1, 1, k) = SubSeq(p2, 1, k)
    /\ SubSeq(p1, k + 1, k + Len(i1)) = i1
    /\ SubSeq(p2, k + 1, k + Len(i2)) = i2
    /\ SubSeq(p1, k + Len(i1) + 1, Len(p1)) = SubSeq(p2, k + Len(i2) + 1, Len(p2))

\* the forecast string of a 200 response
ForecastOf(r) ==
  IF variant = "basic" THEN BodyOf(r).forecast
  ELSE IF variant = "rich" THEN BodyOf(r).data.weather_forecast
  ELSE BodyOf(r).data.forecast

\* C13: two requests with the same crop, region and weather reading have
\* prompts that are one text around the language instruction, which is the
\* Hindi one for lang = "hi" and "English" for any other value; the argument
\* of the weather fetch, the alert and the forecast string are the same.
C13_LanguageOnlyInInstruction ==
  \A r1 \in reqs, r2 \in reqs :
    (/\ r1 < r2
     /\ rq[r1].prompt # Undefined /\ rq[r2].prompt # Undefined
     /\ rq[r1].crop = rq[r2].crop /\ rq[r1].region = rq[r2].region
     /\ rq[r1].weather = rq[r2].weather) =>
      /\ DiffersOnlyIn(rq[r1].prompt, rq[r2].prompt,
                       ExpectedInstruction(rq[r1].lang), ExpectedInstruction(rq[r2].lang))
      /\ rq[r1].weatherArg = rq[r2].weatherArg
      /\ rq[r1].emergency = rq[r2].emergency
      /\ (/\ Responded(r1) /\ Responded(r2)
          /\ StatusOf(r1) = 200 /\ StatusOf(r2) = 200) => ForecastOf(r1) = ForecastOf(r2)

C13_Witness ==
  /\ rq[1].prompt # Undefined /\ rq[2].prompt # Undefined
  /\ rq[1].crop = rq[2].crop /\ rq[1].region = rq[2].region
  /\ rq[1].weather = rq[2].weather
  /\ rq[1].lang = "hi" /\ rq[2].lang = "HI"
  /\ rq[1].prompt # rq[2].prompt
  /\ Responded(1) /\ Responded(2) /\ StatusOf(1) = 200 /\ StatusOf(2) = 200

\* the response the request's own header, parameters and upstream results
\* give, whatever any other request does
OwnResponses(r) ==
  LET q == rq[r]
      a == authenticateBearer(variant, q.authorization, MCP_BEARER_TOKEN)
  IN  IF HasGuard(variant) /\ ~a.next THEN {GuardResponse(a)}
      ELSE IF Absent(q.crop) \/ Absent(q.region) THEN {ValidationResponse(variant)}
      ELSE IF q.err # <<>> THEN {CatchResponse(variant, q.err[1], q.region, NODE_ENV)}
      ELSE { SuccessResponse(variant, q.crop, q.region, LangOf(q.lang), q.weather[1],
                             getAlert(q.weather[1]), q.advice, ts, rid) :
               ts \in Timestamps, rid \in RequestIds }

\* the states of C17: a response has one of the six statuses, ends the request
\* and is the one the request's own inputs give
C17_ResponseOwn ==
  \A r \in reqs :
    Responded(r) =>
      /\ rq[r].pc = "done"
      /\ StatusOf(r) \in {200, 400, 401, 404, 500, 503}
      /\ rq[r].response[1] \in OwnResponses(r)

\* the steps of C17: a request that is done takes no further step, so its
\* response is never replaced or sent again
C17_ResponseOnce ==
  \A r \in TwoReqs : rq[r].pc = "done" => rq'[r] = rq[r]

\* C17: under any interleaving of two requests, with every ready callback run
\* and every upstream call settled, each request that has arrived is answered;
\* it is answered once, with one of the statuses 200, 400, 401, 404, 500, 503,
\* and by the response its own header, parameters and upstream results give.
C17_ExactlyOneResponse ==
  /\ []C17_ResponseOwn
  /\ [][C17_ResponseOnce]_vars
  /\ \A r \in TwoReqs : (rq[r].pc # "idle") ~> (rq[r].pc = "done" /\ Responded(r))

C17_Witness ==
  /\ Responded(1) /\ Responded(2)
  /\ StatusOf(1) = 404 /\ StatusOf(2) = 200
  /\ rq[1].region # rq[2].region

====
